---- MODULE Spec2Model ----
(***************************************************************************)
(* A model of lnsp/pdi-carsim: the geometry package (Vector, Polygon), the *)
(* car model and its pursuit controller, and the frame loop of run().      *)
(*                                                                         *)
(* float64 is modelled as a decimal floating-point number with Precision   *)
(* significant digits, round-half-even, an unbounded exponent, signed      *)
(* zeros, infinities and NaN.  A value is a record                         *)
(*   [k |-> "fin" | "inf" | "nan", s |-> sign bit, m |-> mantissa, e |-> exponent] *)
(* standing for (-1)^s * m * 10^e, with m = 0 or 10^(Precision-1) <= m <   *)
(* 10^Precision.  The special values follow IEEE 754 as Go does: x/0 is an *)
(* infinity, 0/0 and Inf-Inf are NaN, every comparison with NaN is false,  *)
(* and a zero keeps its sign through the arithmetic.                       *)
(***************************************************************************)
EXTENDS Integers, Sequences, FiniteSets, TLC

VARIABLES car, targetPath, progress, ownControl, delta, pc, tick, nEvents,
          wrapped, calls, arg, result

vars == <<car, targetPath, progress, ownControl, delta, pc, tick, nEvents,
          wrapped, calls, arg, result>>

----------------------------------------------------------------------------
(* float64 *)

Precision == 4

RECURSIVE Pow10(_)
Pow10(n) == IF n <= 0 THEN 1 ELSE 10 * Pow10(n - 1)

Base == Pow10(Precision)

Lo == Pow10(Precision - 1)

NaN == [k |-> "nan", s |-> 0, m |-> 0, e |-> 0]

Inf(s) == [k |-> "inf", s |-> s, m |-> 0, e |-> 0]

Zero(s) == [k |-> "fin", s |-> s, m |-> 0, e |-> 0]

F(s, m, e) == [k |-> "fin", s |-> s, m |-> m, e |-> e]

RECURSIVE ScaleUp(_, _)
ScaleUp(n, e) == IF n >= Lo THEN F(0, n, e) ELSE ScaleUp(n * 10, e - 1)

RECURSIVE Excess(_)
Excess(n) == IF n < Base THEN 0 ELSE 1 + Excess(n \div 10)

\* q, the digits kept, rounded by r, the digits dropped, out of p: ties to even.
RoundHalfEven(q, r, p) ==
    IF (2 * r > p) \/ (2 * r = p /\ q % 2 = 1) THEN q + 1 ELSE q

Carried(s, q, e) == IF q = Base THEN F(s, Lo, e + 1) ELSE F(s, q, e)

Rounded(s, n, e, d) ==
    Carried(s, RoundHalfEven(n \div Pow10(d), n % Pow10(d), Pow10(d)), e + d)

\* The float nearest to (-1)^s * n * 10^e, for a natural number n.
Fl(s, n, e) ==
    IF n = 0 THEN Zero(s)
    ELSE IF n < Base THEN [ScaleUp(n, e) EXCEPT !.s = s]
    ELSE Rounded(s, n, e, Excess(n))

\* The float nearest to t * 10^e, for an integer t: a decimal literal.
Dec(t, e) == Fl(IF t < 0 THEN 1 ELSE 0, IF t < 0 THEN -t ELSE t, e)

FInt(n) == Dec(n, 0)

IsNaN(a) == a.k = "nan"

IsInf(a) == a.k = "inf"

IsZero(a) == a.k = "fin" /\ a.m = 0

IsFinite(a) == a.k = "fin"

Xor(s, t) == IF s = t THEN 0 ELSE 1

FNeg(a) == IF IsNaN(a) THEN a ELSE [a EXCEPT !.s = 1 - a.s]

FAbs(a) == IF IsNaN(a) THEN a ELSE [a EXCEPT !.s = 0]

\* v with its sign flipped when s is 1.
WithSign(v, s) == IF s = 1 THEN FNeg(v) ELSE v

Mant(a) == IF a.s = 1 THEN -a.m ELSE a.m

\* hi + lo for finite non-zero values, hi.e >= lo.e: lo is absorbed when it is
\* below half a unit in the last place of hi.
Aligned(hi, lo) ==
    IF hi.e - lo.e > Precision + 1 THEN hi
    ELSE Dec(Mant(hi) * Pow10(hi.e - lo.e) + Mant(lo), lo.e)

FAdd(a, b) ==
    IF IsNaN(a) \/ IsNaN(b) THEN NaN
    ELSE IF IsInf(a) THEN (IF IsInf(b) /\ b.s # a.s THEN NaN ELSE a)
    ELSE IF IsInf(b) THEN b
    ELSE IF a.m = 0 /\ b.m = 0 THEN Zero(IF a.s = 1 /\ b.s = 1 THEN 1 ELSE 0)
    ELSE IF a.m = 0 THEN b
    ELSE IF b.m = 0 THEN a
    ELSE IF a.e >= b.e THEN Aligned(a, b)
    ELSE Aligned(b, a)

FSub(a, b) == FAdd(a, FNeg(b))

FMul(a, b) ==
    IF IsNaN(a) \/ IsNaN(b) THEN NaN
    ELSE IF IsInf(a) \/ IsInf(b)
         THEN (IF IsZero(a) \/ IsZero(b) THEN NaN ELSE Inf(Xor(a.s, b.s)))
    ELSE IF a.m = 0 \/ b.m = 0 THEN Zero(Xor(a.s, b.s))
    ELSE Fl(Xor(a.s, b.s), a.m * b.m, a.e + b.e)

\* n / d to one digit more than n has, the last digit odd when n / d is inexact.
Quotient(n, d) == (n \div d) * 10 + (IF n % d # 0 THEN 1 ELSE 0)

FDiv(a, b) ==
    IF IsNaN(a) \/ IsNaN(b) THEN NaN
    ELSE IF IsInf(a) THEN (IF IsInf(b) THEN NaN ELSE Inf(Xor(a.s, b.s)))
    ELSE IF IsInf(b) THEN Zero(Xor(a.s, b.s))
    ELSE IF b.m = 0 THEN (IF a.m = 0 THEN NaN ELSE Inf(Xor(a.s, b.s)))
    ELSE IF a.m = 0 THEN Zero(Xor(a.s, b.s))
    ELSE Fl(Xor(a.s, b.s), Quotient(a.m * Pow10(Precision + 1), b.m),
            a.e - b.e - Precision - 2)

\* |a| < |b| for two values that are not NaN.
MagLt(a, b) ==
    IF IsInf(a) THEN FALSE
    ELSE IF IsInf(b) THEN TRUE
    ELSE IF a.m = 0 THEN b.m # 0
    ELSE IF b.m = 0 THEN FALSE
    ELSE a.e < b.e \/ (a.e = b.e /\ a.m < b.m)

Sgn(a) == IF IsZero(a) THEN 0 ELSE IF a.s = 1 THEN -1 ELSE 1

\* a < b, a > b, a == b, a != b, a <= b of Go: false (true for !=) when either
\* is NaN.
FLt(a, b) ==
    /\ ~IsNaN(a)
    /\ ~IsNaN(b)
    /\ IF Sgn(a) # Sgn(b) THEN Sgn(a) < Sgn(b)
       ELSE IF Sgn(a) = 0 THEN FALSE
       ELSE IF Sgn(a) = 1 THEN MagLt(a, b)
       ELSE MagLt(b, a)

FGt(a, b) == FLt(b, a)

FEq(a, b) ==
    /\ ~IsNaN(a)
    /\ ~IsNaN(b)
    /\ Sgn(a) = Sgn(b)
    /\ (Sgn(a) = 0 \/ (a.k = b.k /\ a.m = b.m /\ a.e = b.e))

FNe(a, b) == ~FEq(a, b)

FLe(a, b) == FLt(a, b) \/ FEq(a, b)

\* math.Max and math.Min, with their special cases.
FMax(x, y) ==
    IF (IsInf(x) /\ x.s = 0) \/ (IsInf(y) /\ y.s = 0) THEN Inf(0)
    ELSE IF IsNaN(x) \/ IsNaN(y) THEN NaN
    ELSE IF IsZero(x) /\ IsZero(y) THEN (IF x.s = 1 THEN y ELSE x)
    ELSE IF FGt(x, y) THEN x ELSE y

FMin(x, y) ==
    IF (IsInf(x) /\ x.s = 1) \/ (IsInf(y) /\ y.s = 1) THEN Inf(1)
    ELSE IF IsNaN(x) \/ IsNaN(y) THEN NaN
    ELSE IF IsZero(x) /\ IsZero(y) THEN (IF x.s = 1 THEN x ELSE y)
    ELSE IF FLt(x, y) THEN x ELSE y

RECURSIVE SqrtSearch(_, _, _)
SqrtSearch(n, lo, hi) ==
    IF hi - lo <= 1 THEN lo
    ELSE IF ((lo + hi) \div 2) * ((lo + hi) \div 2) <= n
         THEN SqrtSearch(n, (lo + hi) \div 2, hi)
         ELSE SqrtSearch(n, lo, (lo + hi) \div 2)

\* The root r of n * 10^(2e), its last digit odd when r * r is not n.
Rooted(n, r, e) == Fl(0, r * 10 + (IF r * r = n THEN 0 ELSE 1), e - 1)

\* The mantissa of a widened, with an even exponent.
Radicand(a) == (IF a.e % 2 # 0 THEN a.m * 10 ELSE a.m) * Base

\* math.Sqrt.
FSqrt(a) ==
    IF IsNaN(a) THEN NaN
    ELSE IF IsZero(a) THEN a
    ELSE IF a.s = 1 THEN NaN
    ELSE IF IsInf(a) THEN a
    ELSE Rooted(Radicand(a), SqrtSearch(Radicand(a), 0, 40000),
                ((IF a.e % 2 # 0 THEN a.e - 1 ELSE a.e) - Precision) \div 2)

Pi == F(0, 3142, -3)

TwoPi == F(0, 6283, -3)

HalfPi == F(0, 1571, -3)

\* The integer nearest to a finite a >= 0 (the mantissa scaled; 0 once the
\* decimal point is past the mantissa).
RoundInt(a) ==
    IF a.m = 0 THEN 0
    ELSE IF a.e >= 0 THEN a.m * Pow10(IF a.e > Precision + 1 THEN Precision + 1 ELSE a.e)
    ELSE IF -a.e > Precision + 1 THEN 0
    ELSE (2 * a.m + Pow10(-a.e)) \div (2 * Pow10(-a.e))

\* x less t, the multiple of 2 Pi nearest to |x|, on x's side of 0.
Reduced(x, t) == IF x.s = 1 THEN FAdd(x, t) ELSE FSub(x, t)

\* The argument of math.Cos and math.Sin brought into [-Pi, Pi].
Reduce(x) == Reduced(x, FMul(FInt(RoundInt(FAbs(FDiv(x, TwoPi)))), TwoPi))

\* cos y on [-Pi/2, Pi/2] and sin y on [0, Pi], as rational approximations
\* (Bhaskara I); both are exact at y = 0.
CosRatio(pp, yy) == FDiv(FSub(pp, FMul(FInt(4), yy)), FAdd(pp, yy))

CosKernel(y) == CosRatio(FMul(Pi, Pi), FMul(y, y))

SinRatio(pp, w) == FDiv(FMul(FInt(16), w), FSub(FMul(FInt(5), pp), FMul(FInt(4), w)))

SinKernel(y) == SinRatio(FMul(Pi, Pi), FMul(y, FSub(Pi, y)))

CosFolded(y) ==
    IF FLe(y, HalfPi) THEN CosKernel(y) ELSE FNeg(CosKernel(FSub(Pi, y)))

\* math.Cos.
Cos(x) == IF ~IsFinite(x) THEN NaN ELSE CosFolded(FAbs(Reduce(x)))

SinFolded(r) == WithSign(SinKernel(FAbs(r)), r.s)

\* math.Sin.
Sin(x) ==
    IF ~IsFinite(x) THEN NaN
    ELSE IF IsZero(x) THEN x
    ELSE SinFolded(Reduce(x))

AtanSeries(z, zz) ==
    IF FLe(FAbs(z), F(0, 1000, -3)) THEN FDiv(z, FAdd(F(0, 1000, -3), FMul(F(0, 2800, -4), zz)))
    ELSE WithSign(FSub(HalfPi, FDiv(FAbs(z), FAdd(zz, F(0, 2800, -4)))), z.s)

\* math.Atan of a finite z.
Atan(z) == AtanSeries(z, FMul(z, z))

CopySign(a, y) == [a EXCEPT !.s = y.s]

\* atan(y/x) moved to the quadrant of (x, y).
Quadrant(x, q) ==
    IF x.s = 1
    THEN (IF FLe(q, Zero(0)) THEN FAdd(q, Pi) ELSE FSub(q, Pi))
    ELSE q

\* math.Atan2(y, x), with its special cases.
Atan2(y, x) ==
    IF IsNaN(x) \/ IsNaN(y) THEN NaN
    ELSE IF IsZero(y)
         THEN (IF FLe(Zero(0), x) /\ x.s = 0 THEN CopySign(Zero(0), y)
               ELSE CopySign(Pi, y))
    ELSE IF IsZero(x) THEN CopySign(HalfPi, y)
    ELSE IF IsInf(x)
         THEN (IF x.s = 0
               THEN (IF IsInf(y) THEN CopySign(F(0, 7854, -4), y)
                     ELSE CopySign(Zero(0), y))
               ELSE (IF IsInf(y) THEN CopySign(F(0, 2356, -3), y)
                     ELSE CopySign(Pi, y)))
    ELSE IF IsInf(y) THEN CopySign(HalfPi, y)
    ELSE Quadrant(x, Atan(FDiv(y, x)))

\* 2 * (z + z^3/3 + z^5/5), the series of 2 artanh z.
LogSeries(z, z2) ==
    FMul(F(0, 2000, -3),
         FAdd(z, FAdd(FDiv(FMul(z, z2), F(0, 3000, -3)),
                      FDiv(FMul(FMul(z, z2), z2), F(0, 5000, -3)))))

LogMantissa(z) == LogSeries(z, FMul(z, z))

\* math.Log: NaN below 0, -Inf at 0; otherwise ln(f) + E * ln(10) for
\* x = f * 10^E with 1 <= f < 10.
Log(x) ==
    IF IsNaN(x) THEN NaN
    ELSE IF IsZero(x) THEN Inf(1)
    ELSE IF x.s = 1 THEN NaN
    ELSE IF IsInf(x) THEN x
    ELSE FAdd(LogMantissa(FDiv(FSub(F(0, x.m, 1 - Precision), F(0, 1000, -3)),
                               FAdd(F(0, x.m, 1 - Precision), F(0, 1000, -3)))),
              FMul(FInt(x.e + Precision - 1), F(0, 2303, -3)))

----------------------------------------------------------------------------
(* geometry.Vector *)

Vec(x, y) == [X |-> x, Y |-> y]

Null == Vec(Zero(0), Zero(0))

NullVector == Null

XAxis == Vec(F(0, 1000, -3), Zero(0))

Add(v, a) == Vec(FAdd(v.X, a.X), FAdd(v.Y, a.Y))

AddX(v, a) == Vec(FAdd(v.X, a.X), v.Y)

AddY(v, a) == Vec(v.X, FAdd(v.Y, a.Y))

Scale(v, s) == Vec(FMul(s, v.X), FMul(s, v.Y))

VecLen(v) == FSqrt(FAdd(FMul(v.X, v.X), FMul(v.Y, v.Y)))

\* Norm, given len := v.Len().
Normalized(v, len) ==
    IF FNe(len, Zero(0)) THEN Scale(v, FDiv(F(0, 1000, -3), len)) ELSE v

Norm(v) == Normalized(v, VecLen(v))

Dot(v, a) == FAdd(FMul(v.X, a.X), FMul(v.Y, a.Y))

Det(v, a) == FSub(FMul(v.X, a.Y), FMul(v.Y, a.X))

AngleBetween(v, a) == Atan2(Det(v, a), Dot(v, a))

\* RotateAround, given dx = v.X - a.X, dy = a.Y - v.Y, c = cos angle, s = sin angle.
Rotated(dx, dy, c, s, a) ==
    Vec(FAdd(FAdd(FMul(dx, c), FMul(dy, s)), a.X),
        FAdd(FSub(FMul(dy, c), FMul(dx, s)), a.Y))

RotateAround(v, a, angle) ==
    Rotated(FSub(v.X, a.X), FSub(a.Y, v.Y), Cos(angle), Sin(angle), a)

\* == on Vector values, component by component.
VecEq(v, a) == FEq(v.X, a.X) /\ FEq(v.Y, a.Y)

----------------------------------------------------------------------------
(* geometry.Polygon: a sequence of vectors; p[i] of Go is At(p, i). *)

At(p, i) == p[i + 1]

RECURSIVE Sum(_, _)
Sum(p, i) == IF i = 0 THEN Vec(Zero(0), Zero(0)) ELSE Add(Sum(p, i - 1), At(p, i - 1))

Center(p) ==
    IF FEq(FInt(Len(p)), Zero(0)) THEN Vec(Zero(0), Zero(0))
    ELSE Scale(Sum(p, Len(p)), FDiv(F(0, 1000, -3), FInt(Len(p))))

Translate(p, v) == [i \in 1..Len(p) |-> Add(p[i], v)]

\* The distance of edge i, from p[i] to p[(i+1) % pointCount].
Distance(p, i) == VecLen(Add(At(p, (i + 1) % Len(p)), Scale(At(p, i), F(1, 1000, -3))))

\* connections[i] after the first loop of Interpolate.
RECURSIVE Connections(_, _)
Connections(p, i) ==
    IF i = 0 THEN Zero(0) ELSE FAdd(Distance(p, i - 1), Connections(p, i - 1))

\* length after i rounds of the first loop of Interpolate.
RECURSIVE Length(_, _)
Length(p, i) ==
    IF i = 0 THEN Zero(0) ELSE FAdd(Length(p, i - 1), Distance(p, i - 1))

\* The point returned for edge i, between the fractions a and b of the length.
Between(p, i, target, a, b) ==
    Add(At(p, i - 1),
        Scale(Add(At(p, i % Len(p)), Scale(At(p, i - 1), F(1, 1000, -3))),
              FDiv(FSub(target, a), FSub(b, a))))

\* The second loop of Interpolate, from index i on.
RECURSIVE Search(_, _, _, _)
Search(p, length, target, i) ==
    IF i >= Len(p) + 1 THEN Null
    ELSE IF FLt(target, FDiv(Connections(p, i), length))
         THEN Between(p, i, target, FDiv(Connections(p, i - 1), length),
                      FDiv(Connections(p, i), length))
         ELSE Search(p, length, target, i + 1)

Interpolate(p, v) ==
    Search(p, Length(p, Len(p)), FMin(F(0, 1000, -3), FMax(Zero(0), v)), 1)

----------------------------------------------------------------------------
(* CarModel and SimpleCarControl *)

\* car.Bounds of NewCar.
BoundsOf(size) == <<NullVector, AddX(NullVector, size), size, AddY(NullVector, size)>>

NewCar(mass, x, y, width, height) ==
    [Size         |-> Vec(width, height),
     Position     |-> Vec(x, y),
     Velocity     |-> NullVector,
     Acceleration |-> NullVector,
     Mass         |-> mass,
     Rotation     |-> Zero(0),
     Tension      |-> F(0, 9999, -4),
     Sensitivity  |-> F(0, 5000, -2),
     Bounds       |-> BoundsOf(Vec(width, height))]

ApplyForce(c, f) ==
    [c EXCEPT !.Acceleration =
        Add(c.Acceleration, Scale(f, FDiv(F(0, 1000, -3), c.Mass)))]

Accelerate(c, d) == ApplyForce(c, Scale(XAxis, d))

Break(c, d) ==
    [c EXCEPT !.Acceleration = Scale(c.Acceleration, FDiv(c.Tension, c.Sensitivity)),
              !.Velocity = Scale(c.Velocity, c.Tension)]

Turn(c, d) == [c EXCEPT !.Rotation = FAdd(c.Rotation, FMul(d, c.Sensitivity))]

TurnCenter(c) ==
    Center(Translate(c.Bounds, AddX(Null, Scale(c.Size, F(1, 2000, -4)))))

\* The three statements of Update, in their order.
Decay(c) == [c EXCEPT !.Acceleration = Scale(c.Acceleration, c.Tension)]

Integrate(c, d) == [c EXCEPT !.Velocity = Add(c.Velocity, Scale(c.Acceleration, d))]

Move(c, d) ==
    [c EXCEPT !.Position =
        Add(c.Position, RotateAround(Scale(c.Velocity, d), Null, c.Rotation))]

\* Update with the velocity integrated before the acceleration decays.
UpdateDecayLast(c, d) == Move(Decay(Integrate(c, d)), d)

Update(c, d) == Move(Integrate(Decay(c), d), d)

\* A mutator call as the call log keeps it: who made it, which one, its argument.
Entry(by, op, v) == [by |-> by, op |-> op, v |-> v]

\* A car, with the mutator calls Feed has made on it so far.
Called(st, op, v, c) == [car |-> c, calls |-> Append(st.calls, Entry("feed", op, v))]

\* diffVector, diffAngle, br and of of Feed.
DiffVector(c, p) == Add(p, Scale(Add(c.Position, TurnCenter(c)), F(1, 1000, -3)))

DiffAngle(c, p) ==
    AngleBetween(DiffVector(c, p), RotateAround(Norm(c.Velocity), Null, c.Rotation))

BrakeSignal(diffVector) == FAdd(FNeg(VecLen(diffVector)), F(0, 1000, -1))

ThrottleSignal(diffVector) ==
    FDiv(Log(FSub(VecLen(diffVector), F(0, 3000, -2))), F(0, 1000, -2))

\* The three decisions of Feed, in their order.
Steer(st, d, diffAngle) ==
    IF FGt(diffAngle, Zero(0)) THEN Called(st, "Turn", d, Turn(st.car, d))
    ELSE IF FLt(diffAngle, Zero(0))
         THEN Called(st, "Turn", FNeg(d), Turn(st.car, FNeg(d)))
    ELSE st

Throttle(st, of) ==
    IF FGt(of, Zero(0))
    THEN Called(st, "Accelerate", F(0, 1000, -4), Accelerate(st.car, F(0, 1000, -4)))
    ELSE st

Brake(st, br) ==
    IF FGt(br, Zero(0)) THEN Called(st, "Break", br, Break(st.car, br)) ELSE st

\* Feed with the brake decided before the throttle.
FeedBrakeFirst(c, d, p) ==
    Throttle(Brake(Steer([car |-> c, calls |-> <<>>], d, DiffAngle(c, p)),
                   BrakeSignal(DiffVector(c, p))),
             ThrottleSignal(DiffVector(c, p)))

\* SimpleCarControl.Feed: the car it leaves and the mutator calls it makes.
Feed(c, d, p) ==
    Brake(Throttle(Steer([car |-> c, calls |-> <<>>], d, DiffAngle(c, p)),
                   ThrottleSignal(DiffVector(c, p))),
          BrakeSignal(DiffVector(c, p)))

----------------------------------------------------------------------------
(* run: the frame loop *)

\* The iterations of the loop a run makes, and the events that arrive during it.
MaxTicks == 3

MaxEvents == 2

\* A value for a variable the specification at hand does not use.
Idle == "idle"

V(x, y) == Vec(FInt(x), FInt(y))

\* Frame times (seconds) the clock may report.
Deltas == {FInt(30), FInt(60)}

\* Paths rand may produce: 8 vertices each.
Paths ==
    { <<V(400, 100), V(700, 100), V(700, 500), V(400, 500),
        V(100, 500), V(100, 300), V(100, 100), V(200, 100)>>,
      <<V(700, 500), V(400, 100), V(100, 100), V(100, 500),
        V(400, 500), V(400, 300), V(700, 300), V(1000, 300)>> }

InRect(v, x, y, width, height) ==
    /\ FLe(x, v.X) /\ FLt(v.X, FAdd(x, width))
    /\ FLe(y, v.Y) /\ FLt(v.Y, FAdd(y, height))

\* generateRandomPath: the polygons it may return.
generateRandomPath(c, x, y, width, height) ==
    {p \in Paths : Len(p) = c /\ \A i \in 1..Len(p) : InRect(p[i], x, y, width, height)}

\* The loop with car.Update moved behind the controller.
FollowingUpdateLast(stage) ==
    CASE stage = "frame"   -> "advance"
      [] stage = "advance" -> "present"
      [] stage = "present" -> "poll"
      [] stage = "poll"    -> "feed"
      [] stage = "feed"    -> "frame"

\* The stages of one iteration of the loop, in the order the loop runs them.
Following(stage) ==
    CASE stage = "frame"   -> "advance"
      [] stage = "advance" -> "poll"
      [] stage = "poll"    -> "feed"
      [] stage = "feed"    -> "present"
      [] stage = "present" -> "frame"

\* progress += delta / 60, and the test that regenerates the path.
Advanced(p, d) == FAdd(p, FDiv(d, F(0, 6000, -2)))

\* The test against 2.0, the value progress starts from.
WrapsLate(p) == FGt(p, F(0, 2000, -3))

Wraps(p) == FGt(p, F(0, 1000, -3))

\* The car's corner, not its pivot, put on the start of the path.
RepositionCorner(c, path) == [c EXCEPT !.Position = Interpolate(path, Zero(0))]

\* The car put on the start of a new path.
Reposition(c, path) ==
    [c EXCEPT !.Position =
        Add(Interpolate(path, Zero(0)), Scale(TurnCenter(c), F(1, 1000, -3)))]

\* The controller fed whatever ownControl says.
FeedAlways(own) == TRUE

\* if !ownControl
FeedEnabled(own) == ~own

Init ==
    /\ targetPath \in generateRandomPath(8, FInt(100), FInt(100), FInt(1000), FInt(600))
    /\ car = NewCar(FInt(1), FInt(100), FInt(100), FInt(100), FInt(50))
    /\ progress = FInt(2)
    /\ ownControl = FALSE
    /\ delta = Zero(0)
    /\ pc = "frame"
    /\ tick = 0
    /\ nEvents = 0
    /\ wrapped = FALSE
    /\ calls = <<>>
    /\ arg = Idle
    /\ result = Idle

\* delta := time since the last frame; car.Update(delta)
UpdateStep ==
    /\ pc = "frame"
    /\ tick < MaxTicks
    /\ \E d \in Deltas :
        /\ delta' = d
        /\ car' = Update(car, d)
        /\ calls' = Append(calls, Entry("run", "Update", d))
    /\ pc' = Following("frame")
    /\ UNCHANGED <<targetPath, progress, ownControl, tick, nEvents, wrapped, arg, result>>

AdvanceStep ==
    /\ pc = "advance"
    /\ IF Wraps(Advanced(progress, delta))
       THEN \E path \in generateRandomPath(8, FInt(100), FInt(100),
                                           FInt(1000), FInt(600)) :
               /\ targetPath' = path
               /\ progress' = Zero(0)
               /\ car' = Reposition(car, path)
               /\ wrapped' = TRUE
       ELSE /\ progress' = Advanced(progress, delta)
            /\ UNCHANGED <<targetPath, car, wrapped>>
    /\ pc' = Following("advance")
    /\ UNCHANGED <<ownControl, delta, tick, nEvents, calls, arg, result>>

\* What a key-down event leaves when its key calls a mutator of the car.
KeyCommand(op, v, c) ==
    /\ nEvents' = nEvents + 1
    /\ car' = c
    /\ calls' = Append(calls, Entry("key", op, v))
    /\ UNCHANGED <<targetPath, progress, ownControl, delta, pc, tick, wrapped, arg, result>>

KeyW ==
    /\ pc = "poll"
    /\ nEvents < MaxEvents
    /\ KeyCommand("Accelerate", FInt(10), Accelerate(car, FInt(10)))

KeyS ==
    /\ pc = "poll"
    /\ nEvents < MaxEvents
    /\ KeyCommand("Break", FInt(10), Break(car, FInt(10)))

KeyA ==
    /\ pc = "poll"
    /\ nEvents < MaxEvents
    /\ \E v \in {FMul(FMul(Pi, FInt(4)), delta)} : KeyCommand("Turn", v, Turn(car, v))

KeyD ==
    /\ pc = "poll"
    /\ nEvents < MaxEvents
    /\ \E v \in {FMul(FMul(FNeg(Pi), FInt(4)), delta)} :
        KeyCommand("Turn", v, Turn(car, v))

KeyO ==
    /\ pc = "poll"
    /\ nEvents < MaxEvents
    /\ nEvents' = nEvents + 1
    /\ ownControl' = ~ownControl
    /\ UNCHANGED <<car, targetPath, progress, delta, pc, tick, wrapped, calls, arg, result>>

KeyEscape ==
    /\ pc = "poll"
    /\ nEvents < MaxEvents
    /\ nEvents' = nEvents + 1
    /\ pc' = "exit"
    /\ UNCHANGED <<car, targetPath, progress, ownControl, delta, tick, wrapped, calls,
                   arg, result>>

\* Any other event: the switch has no case for it.
OtherEvent ==
    /\ pc = "poll"
    /\ nEvents < MaxEvents
    /\ nEvents' = nEvents + 1
    /\ UNCHANGED <<car, targetPath, progress, ownControl, delta, pc, tick, wrapped,
                   calls, arg, result>>

\* sdl.PollEvent() returns nil.
PollDone ==
    /\ pc = "poll"
    /\ pc' = Following("poll")
    /\ UNCHANGED <<car, targetPath, progress, ownControl, delta, tick, nEvents, wrapped,
                   calls, arg, result>>

FeedStep ==
    /\ pc = "feed"
    /\ IF FeedEnabled(ownControl)
       THEN \E st \in {Feed(car, delta, Interpolate(targetPath, progress))} :
               /\ car' = st.car
               /\ calls' = calls \o <<Entry("run", "Feed", delta)>> \o st.calls
       ELSE UNCHANGED <<car, calls>>
    /\ pc' = Following("feed")
    /\ UNCHANGED <<targetPath, progress, ownControl, delta, tick, nEvents, wrapped,
                   arg, result>>

\* renderer.Present(), and back to the top of the loop.
Present ==
    /\ pc = "present"
    /\ tick' = tick + 1
    /\ wrapped' = FALSE
    /\ calls' = <<>>
    /\ pc' = Following("present")
    /\ UNCHANGED <<car, targetPath, progress, ownControl, delta, nEvents, arg, result>>

Next ==
    \/ UpdateStep
    \/ AdvanceStep
    \/ KeyW
    \/ KeyS
    \/ KeyA
    \/ KeyD
    \/ KeyO
    \/ KeyEscape
    \/ OtherEvent
    \/ PollDone
    \/ FeedStep
    \/ Present

Spec == Init /\ [][Next]_vars

----------------------------------------------------------------------------
(* The frame loop: properties *)

\* The places in the call log of the current iteration of calls that fit.
UpdateAt == {i \in 1..Len(calls) : calls[i].by = "run" /\ calls[i].op = "Update"}

FeedAt == {i \in 1..Len(calls) : calls[i].by = "run" /\ calls[i].op = "Feed"}

KeyAt == {i \in 1..Len(calls) : calls[i].by = "key"}

\* The stages of an iteration that follow the advance of progress.
Advancing == pc \in {"poll", "feed", "present"}

\* C3 as stated: within an iteration Feed and the manual commands come before
\* Update, so no Feed and no manual command follows the Update of its iteration.
C3_CommandsBeforeUpdate ==
    \A i \in UpdateAt : \A j \in FeedAt \cup KeyAt : j < i

\* C3 amended: within an iteration Update comes first: the log of an iteration
\* starts with its one Update, and every Feed and manual command follows it.
C3_UpdateBeforeCommands ==
    /\ calls # <<>> => UpdateAt = {1}
    /\ \A i \in UpdateAt : \A j \in FeedAt \cup KeyAt : i < j

C3_Witness == pc = "present" /\ FeedAt # {} /\ KeyAt # {} /\ tick >= 1

\* C4 as stated: once progress is advanced, and when Interpolate(progress) is
\* called, progress is in [0, 1).
C4_ProgressBelowOne ==
    Advancing => FLe(Zero(0), progress) /\ FLt(progress, F(0, 1000, -3))

\* C4 amended: once progress is advanced, and when Interpolate(progress) is
\* called, progress is in [0, 1], 1 included.
C4_ProgressAtMostOne ==
    Advancing => FLe(Zero(0), progress) /\ FLe(progress, F(0, 1000, -3))

C4_Witness == pc = "feed" /\ FEq(progress, F(0, 1000, -3)) /\ ~wrapped

\* C5 as stated: in an iteration the car is commanded by Feed or by manual
\* commands, never both: Feed runs exactly when ownControl is off, and manual
\* commands act only when it is on.
C5_FeedOrManual ==
    pc = "present" =>
        /\ FeedAt # {} <=> ~ownControl
        /\ KeyAt # {} => ownControl
        /\ ~(FeedAt # {} /\ KeyAt # {})

\* C5 amended: Feed runs, once, in exactly the iterations whose polling ends
\* with ownControl off; manual commands act whatever ownControl is.
C5_FeedIffNotOwnControl ==
    pc = "present" =>
        /\ FeedAt # {} <=> ~ownControl
        /\ Cardinality(FeedAt) <= 1

C5_Witness == pc = "present" /\ FeedAt # {} /\ KeyAt # {} /\ ~ownControl

\* C10: in an iteration where progress wraps, progress is 0 and the car's
\* position plus TurnCenter is Interpolate(0) of the new path, its first
\* vertex, from the wrap to the end of the iteration.
C10_RepositionedOnWrap ==
    (wrapped /\ Advancing) =>
        /\ targetPath \in Paths
        /\ FEq(progress, Zero(0))
        /\ VecEq(Add(car.Position, TurnCenter(car)), Interpolate(targetPath, Zero(0)))
        /\ VecEq(Interpolate(targetPath, Zero(0)), At(targetPath, 0))

C10_Witness ==
    /\ wrapped
    /\ pc = "present"
    /\ tick >= 1
    /\ FeedAt # {}
    /\ KeyAt # {}
    /\ FNe(car.Rotation, Zero(0))

----------------------------------------------------------------------------
(* Polygon.Interpolate called on its own *)

\* The polygons Interpolate is called on: empty, one vertex, coincident
\* vertices, an open segment, a triangle, a square, and the paths of run.
Polys ==
    { <<>>,
      <<V(5, 5)>>,
      <<V(5, 5), V(5, 5)>>,
      <<V(7, 3), V(7, 3), V(7, 3)>>,
      <<V(10, 20), V(50, 20)>>,
      <<V(30, 10), V(60, 10), V(60, 50)>>,
      <<V(400, 100), V(400, 500), V(100, 500), V(100, 100)>> } \cup Paths

\* The arguments v of Interpolate: below, inside, at the ends of and above [0, 1].
Ts ==
    { FInt(-1), Zero(1), Zero(0), F(0, 2500, -4), F(0, 5000, -4), F(0, 7500, -4),
      F(0, 9999, -4), F(0, 1000, -3), FInt(2), Inf(0), NaN }

InitInterp ==
    /\ arg \in [p : Polys, v : Ts]
    /\ result = Idle
    /\ pc = "call"
    /\ car = Idle
    /\ targetPath = Idle
    /\ progress = Idle
    /\ ownControl = Idle
    /\ delta = Idle
    /\ tick = 0
    /\ nEvents = 0
    /\ wrapped = FALSE
    /\ calls = <<>>

InterpolateCall ==
    /\ pc = "call"
    /\ result' = Interpolate(arg.p, arg.v)
    /\ pc' = "done"
    /\ UNCHANGED <<car, targetPath, progress, ownControl, delta, tick, nEvents, wrapped,
                   calls, arg>>

NextInterp == InterpolateCall

SpecInterp == InitInterp /\ [][NextInterp]_vars

\* The perimeter of p: length after the first loop of Interpolate.
Perimeter(p) == Length(p, Len(p))

\* Two points no further apart than 1 on either axis.
Near(v, a) ==
    /\ FLe(FAbs(FSub(v.X, a.X)), F(0, 1000, -3))
    /\ FLe(FAbs(FSub(v.Y, a.Y)), F(0, 1000, -3))

\* C1: for a polygon of at least 2 vertices and positive perimeter, Interpolate
\* of 1, or of an argument clamped to 1, returns the first vertex p[0].
C1_InterpolateOneIsFirstVertex ==
    (/\ pc = "done"
     /\ Len(arg.p) >= 2
     /\ FGt(Perimeter(arg.p), Zero(0))
     /\ FLe(F(0, 1000, -3), arg.v))
        => Near(result, At(arg.p, 0))

\* C2: for a polygon of perimeter 0, Interpolate returns the first vertex, and
\* the origin when the polygon is empty, whatever its argument.
C2_ZeroPerimeterFallback ==
    (pc = "done" /\ FEq(Perimeter(arg.p), Zero(0)))
        => IF Len(arg.p) = 0 THEN VecEq(result, Null)
           ELSE VecEq(result, At(arg.p, 0))

----------------------------------------------------------------------------
(* CarModel and SimpleCarControl.Feed called on their own *)

MaxCalls == 3

\* The masses NewCar is called with.
Masses == {FInt(1), FInt(0), FInt(-1)}

\* The forces ApplyForce is called with.
Forces == {V(0, 5)}

\* The frame times Update and Feed are called with.
Steps == {FInt(1)}

\* The targets Feed is called with; the pivot of a new car at (100, 100) is (130, 125).
Targets ==
    { V(130, 125), V(150, 125), V(160, 125), V(161, 125), V(162, 125), V(180, 125),
      V(230, 125), V(330, 125), V(100, 100), V(100, 150), V(160, 100), V(160, 150) }

\* A call as arg keeps it: the mutator, the car before it, its arguments.
Call(op, c, d, p) == [op |-> op, c |-> c, d |-> d, p |-> p]

InitApi ==
    /\ \E mass \in Masses : car = NewCar(mass, FInt(100), FInt(100), FInt(100), FInt(50))
    /\ arg = Idle
    /\ result = Idle
    /\ pc = "call"
    /\ targetPath = Idle
    /\ progress = Idle
    /\ ownControl = Idle
    /\ delta = Idle
    /\ tick = 0
    /\ nEvents = 0
    /\ wrapped = FALSE
    /\ calls = <<>>

\* What a call from outside leaves: nEvents counts the calls, calls keeps what
\* Feed called.
Returns(op, d, p, c, log) ==
    /\ nEvents' = nEvents + 1
    /\ arg' = Call(op, car, d, p)
    /\ car' = c
    /\ calls' = log
    /\ UNCHANGED <<targetPath, progress, ownControl, delta, pc, tick, wrapped, result>>

ApplyForceCall ==
    /\ nEvents < MaxCalls
    /\ \E f \in Forces : Returns("ApplyForce", Zero(0), f, ApplyForce(car, f), <<>>)

AccelerateCall ==
    /\ nEvents < MaxCalls
    /\ Returns("Accelerate", FInt(10), Null, Accelerate(car, FInt(10)), <<>>)

BreakCall ==
    /\ nEvents < MaxCalls
    /\ Returns("Break", FInt(10), Null, Break(car, FInt(10)), <<>>)

TurnCall ==
    /\ nEvents < MaxCalls
    /\ Returns("Turn", FInt(1), Null, Turn(car, FInt(1)), <<>>)

UpdateCall ==
    /\ nEvents < MaxCalls
    /\ \E d \in Steps : Returns("Update", d, Null, Update(car, d), <<>>)

FeedCall ==
    /\ nEvents < MaxCalls
    /\ \E d \in Steps, p \in Targets :
        \E st \in {Feed(car, d, p)} : Returns("Feed", d, p, st.car, st.calls)

NextApi ==
    \/ ApplyForceCall
    \/ AccelerateCall
    \/ BreakCall
    \/ TurnCall
    \/ UpdateCall
    \/ FeedCall

SpecApi == InitApi /\ [][NextApi]_vars

----------------------------------------------------------------------------
(* CarModel and SimpleCarControl.Feed: properties *)

\* The last call was op, and arg holds the car before it and its arguments.
Returned(op) == nEvents > 0 /\ arg.op = op

FiniteVec(v) == IsFinite(v.X) /\ IsFinite(v.Y)

\* The places in the log of Feed of its calls of op.
FedAt(op) == {i \in 1..Len(calls) : calls[i].op = op}

\* |toTarget| and the bearing of the last Feed, from the car before it.
ToTarget == VecLen(DiffVector(arg.c, arg.p))

Bearing == DiffAngle(arg.c, arg.p)

\* C6: no ApplyForce or Accelerate on a car of mass <= 0 returns leaving an
\* infinite, NaN or sign-flipped acceleration in the car.
C6_NonPositiveMassRejected ==
    ~ /\ nEvents > 0
      /\ arg.op \in {"ApplyForce", "Accelerate"}
      /\ FLe(arg.c.Mass, Zero(0))
      /\ \/ ~FiniteVec(car.Acceleration)
         \/ arg.op = "Accelerate" /\ FLt(car.Acceleration.X, arg.c.Acceleration.X)
         \/ arg.op = "ApplyForce" /\ FLt(car.Acceleration.Y, arg.c.Acceleration.Y)

\* C7: Feed calls Accelerate(0.1) exactly when |toTarget| > 30 and
\* log(|toTarget| - 30) / 10 > 0, never when |toTarget| <= 30, and calls Break
\* exactly when 100 - |toTarget| > 0; when it calls both, Accelerate is first;
\* nothing infinite or NaN enters a finite car of mass > 0.
C7_ThrottleAndBrake ==
    Returned("Feed") =>
        /\ FedAt("Accelerate") # {} <=>
              /\ FGt(ToTarget, FInt(30))
              /\ FGt(FDiv(Log(FSub(ToTarget, FInt(30))), FInt(10)), Zero(0))
        /\ FLe(ToTarget, FInt(30)) => FedAt("Accelerate") = {}
        /\ \A i \in FedAt("Accelerate") : calls[i].v = F(0, 1000, -4)
        /\ FedAt("Break") # {} <=> FGt(FSub(FInt(100), ToTarget), Zero(0))
        /\ \A i \in FedAt("Accelerate") : \A j \in FedAt("Break") : i < j
        /\ (/\ FGt(arg.c.Mass, Zero(0))
            /\ FiniteVec(arg.c.Acceleration)
            /\ FiniteVec(arg.c.Velocity))
              => FiniteVec(car.Acceleration) /\ FiniteVec(car.Velocity)

C7_Witness ==
    /\ Returned("Feed")
    /\ FedAt("Accelerate") # {}
    /\ FedAt("Break") # {}
    /\ FLt(ToTarget, FInt(100))

\* C8: Feed adds dt * Sensitivity to Rotation when the bearing is > 0, takes it
\* off when the bearing is < 0, and leaves Rotation alone when the bearing is
\* 0; a car of velocity zero has bearing 0 and Feed does not turn it.
C8_BangBangSteering ==
    Returned("Feed") =>
        /\ FGt(Bearing, Zero(0)) =>
              car.Rotation = FAdd(arg.c.Rotation, FMul(arg.d, arg.c.Sensitivity))
        /\ FLt(Bearing, Zero(0)) =>
              car.Rotation = FAdd(arg.c.Rotation, FMul(FNeg(arg.d), arg.c.Sensitivity))
        /\ FEq(Bearing, Zero(0)) => car.Rotation = arg.c.Rotation
        /\ VecEq(arg.c.Velocity, Null) =>
              FEq(Bearing, Zero(0)) /\ car.Rotation = arg.c.Rotation

\* C9 as stated: an Update, which applies no force, leaves |velocity| no
\* larger than it was (here for a car of mass > 0).
C9_UpdateNeverSpeedsUp ==
    (Returned("Update") /\ FGt(arg.c.Mass, Zero(0))) =>
        FLe(VecLen(car.Velocity), VecLen(arg.c.Velocity))

\* C9 amended: an Update of a finite car leaves each component of the
\* acceleration no larger in size, and the velocity it leaves is the velocity
\* before plus the decayed acceleration times dt: unchanged when the
\* acceleration is zero, not damped otherwise.
C9_UpdateDecaysAccelerationOnly ==
    (/\ Returned("Update")
     /\ FiniteVec(arg.c.Acceleration)
     /\ FiniteVec(arg.c.Velocity)) =>
        /\ FLe(FAbs(car.Acceleration.X), FAbs(arg.c.Acceleration.X))
        /\ FLe(FAbs(car.Acceleration.Y), FAbs(arg.c.Acceleration.Y))
        /\ car.Velocity = Add(arg.c.Velocity, Scale(car.Acceleration, arg.d))
        /\ VecEq(arg.c.Acceleration, Null) => VecEq(car.Velocity, arg.c.Velocity)

C9_Witness ==
    /\ Returned("Update")
    /\ FGt(arg.c.Mass, Zero(0))
    /\ FiniteVec(arg.c.Acceleration)
    /\ FNe(arg.c.Velocity.X, Zero(0))
    /\ FGt(VecLen(car.Velocity), VecLen(arg.c.Velocity))

====
